---- MODULE Spec2Model ----
(***************************************************************************)
(* FinBot (src/main.py): the conversational flow of main(), one action per *)
(* script run of the Streamlit host, and the streaming chat client         *)
(* get_ollama_response.                                                    *)
(*                                                                         *)
(* Texts are TLA+ strings.  The source's non-ASCII characters (the emoji   *)
(* and the typographic apostrophes and dashes of the canned lines) are     *)
(* written in ASCII, and the backquote fence of the document wrapper is    *)
(* written with tildes, because the TLA+ lexer accepts neither; no         *)
(* comparison of the program depends on those characters.                  *)
(***************************************************************************)
EXTENDS Integers, Sequences, FiniteSets, TLC

\* ------------------------------------------------------------------ bounds
\* User events (clicks, typed inputs, uploads, event-free renders) per session.
MaxEvents == 3
\* Lines of one streamed response (client specification).
MaxLines == 3

\* ------------------------------------------------------------ Python values
\* Optional values: None is the empty tuple, a value v is <<v>>.
None == << >>
Some(v) == <<v>>
IsNone(o) == o = << >>
Value(o) == o[1]

\* str.startswith
StartsWith(s, prefix) ==
    /\ Len(s) >= Len(prefix)
    /\ SubSeq(s, 1, Len(prefix)) = prefix

\* `sub in s` for two strings
Contains(s, sub) ==
    \E i \in 1..(Len(s) - Len(sub) + 1) : SubSeq(s, i, i + Len(sub) - 1) = sub

UpperToLower ==
    [A |-> "a", B |-> "b", C |-> "c", D |-> "d", E |-> "e", F |-> "f", G |-> "g",
     H |-> "h", I |-> "i", J |-> "j", K |-> "k", L |-> "l", M |-> "m", N |-> "n",
     O |-> "o", P |-> "p", Q |-> "q", R |-> "r", S |-> "s", T |-> "t", U |-> "u",
     V |-> "v", W |-> "w", X |-> "x", Y |-> "y", Z |-> "z"]

LowerChar(c) == IF c \in DOMAIN UpperToLower THEN UpperToLower[c] ELSE c

RECURSIVE LowerFrom(_, _)
LowerFrom(s, i) ==
    IF i > Len(s) THEN "" ELSE LowerChar(SubSeq(s, i, i)) \o LowerFrom(s, i + 1)

\* str.lower
Lower(s) == LowerFrom(s, 1)

\* ----------------------------------------------------------- configuration
OLLAMA_API_BASE == "http://localhost:11434"
OLLAMA_MODEL == "llama3"
DEFAULT_SYSTEM_PROMPT ==
    "You are FinBot, a helpful and friendly AI assistant for small business finance. Keep your responses concise and relevant to the provided information or the current conversation flow."
\* The content of prompt.txt, read at import time.
FILE_ANALYSIS_TRIGGER_PROMPT == "<content of prompt.txt>"

FLOW_WELCOME == "welcome"
FLOW_NEW_BUSINESS_START == "new_business_start"
FLOW_NEW_BUSINESS_IDEA == "new_business_idea"
FLOW_NEW_BUSINESS_NO_IDEA == "new_business_no_idea"
FLOW_EXISTING_BUSINESS_NEEDS == "existing_business_needs"
FLOW_LEARN_MORE_TOPICS == "learn_more_topics"
FLOW_FREE_TEXT == "free_text"
FLOW_HUMAN_SUPPORT == "human_support"
FLOW_FILE_ANALYSIS == "file_analysis"

Flows ==
    {FLOW_WELCOME, FLOW_NEW_BUSINESS_START, FLOW_NEW_BUSINESS_IDEA,
     FLOW_NEW_BUSINESS_NO_IDEA, FLOW_EXISTING_BUSINESS_NEEDS, FLOW_LEARN_MORE_TOPICS,
     FLOW_FREE_TEXT, FLOW_HUMAN_SUPPORT, FLOW_FILE_ANALYSIS}

\* ------------------------------------------------------------ canned texts
WelcomeGreeting ==
    "Hi, I'm FinBot, your small business finance buddy. I can help you track cash flow, check funding options, or give you smart budget tips. Let's get started - what do you want help with today?"
NewBusinessStartLine == "Great! Let's build a strong base together. Do you have a business idea yet?"
NewBusinessIdeaLine == "Awesome! Do you know roughly how much money you'll need to start?"
NewBusinessIdeaPlaceholder == "*(Placeholder: Offer simple planning template)*"
NewBusinessNoIdeaLine ==
    "No worries! I can show you some small business ideas that need low investment. Want to see them?"
NewBusinessNoIdeaPlaceholder == "*(Placeholder: Link to blog/articles for ideas)*"
ExistingBusinessNeedsLine == "Good to know! What's your biggest need right now?"
LearnMoreTopicsLine ==
    "Perfect! I can share guides, checklists, or tips for you. What do you want to learn about?"
LiveAgentLine == "Connecting you to a human expert. Please wait a moment."
HumanExpertLine == "Our human expert will be with you shortly. Please provide your contact details."
ThinkingPlaceholder == "Thinking about the file content..."
ConnectionApology == "I'm sorry, I can't connect to the local LLM. Please check if Ollama is running."
ApiApology == "I'm sorry, I encountered an error with the Ollama API. Please check the server logs."
GenericApology == "An unexpected error occurred. Please check your Ollama setup."

LabelJustStarting == "I'm just starting my business"
LabelAlreadyRun == "I already run a business"
LabelLearnMore == "I want to learn more"
LabelHaveIdea == "Yes, I have an idea"
LabelNoIdea == "No, I need help choosing"

Opt(label, flow) == [label |-> label, flow |-> flow]

\* (mutant) the welcome stage's last option leads to the human-support stage.
WelcomeOptionsQuestionToHuman ==
    << Opt(LabelJustStarting, FLOW_NEW_BUSINESS_START),
       Opt(LabelAlreadyRun, FLOW_EXISTING_BUSINESS_NEEDS),
       Opt("I want funding help", FLOW_FREE_TEXT),
       Opt("I want to track my cash flow", FLOW_FREE_TEXT),
       Opt(LabelLearnMore, FLOW_LEARN_MORE_TOPICS),
       Opt("I have a question", FLOW_HUMAN_SUPPORT) >>

\* The options dictionaries, in insertion order.
WelcomeOptions ==
    << Opt(LabelJustStarting, FLOW_NEW_BUSINESS_START),
       Opt(LabelAlreadyRun, FLOW_EXISTING_BUSINESS_NEEDS),
       Opt("I want funding help", FLOW_FREE_TEXT),
       Opt("I want to track my cash flow", FLOW_FREE_TEXT),
       Opt(LabelLearnMore, FLOW_LEARN_MORE_TOPICS),
       Opt("I have a question", FLOW_FREE_TEXT) >>
NewBusinessStartOptions ==
    << Opt(LabelHaveIdea, FLOW_NEW_BUSINESS_IDEA),
       Opt(LabelNoIdea, FLOW_NEW_BUSINESS_NO_IDEA) >>
ExistingBusinessNeedsOptions ==
    << Opt("Track cash flow", FLOW_FREE_TEXT),
       Opt("Check funding eligibility", FLOW_FREE_TEXT),
       Opt("Get budget advice", FLOW_FREE_TEXT),
       Opt("Improve financial health score", FLOW_FREE_TEXT),
       Opt("Other", FLOW_FREE_TEXT) >>
LearnMoreTopicsOptions ==
    << Opt("How to budget better", FLOW_FREE_TEXT),
       Opt("How to save money", FLOW_FREE_TEXT),
       Opt("How to get more customers", FLOW_FREE_TEXT),
       Opt("How to file taxes", FLOW_FREE_TEXT),
       Opt("Other", FLOW_FREE_TEXT) >>

Msg(role, content) == [role |-> role, content |-> content]

\* ------------------------------------------------- the model server's answers
\* JSON values of a decoded stream line.
JNull == [t |-> "null"]
JNumber == [t |-> "number"]
JBool == [t |-> "bool"]
JString(s) == [t |-> "string", s |-> s]
JArray(items) == [t |-> "array", items |-> items]
JObject(fields) == [t |-> "object", fields |-> fields]

\* One line of response.iter_lines(): an empty keep-alive line, bytes that are
\* not UTF-8, text that is not JSON, a JSON value, or the transport failing
\* while the line is read.
EmptyLine == [kind |-> "empty"]
BadUtf8Line == [kind |-> "bad_utf8"]
BadJsonLine == [kind |-> "bad_json"]
JsonLine(j) == [kind |-> "json", json |-> j]
RaiseLine(exc) == [kind |-> "raise", exc |-> exc]

\* A chunk as the server sends it: {"message": {"role": "assistant", "content": s}}
Fragment(s) == JsonLine(JObject([message |-> JObject([role |-> JString("assistant"), content |-> JString(s)])]))
\* The closing chunk of some servers: {"done": true}
DoneLine == JsonLine(JObject([done |-> JBool]))

\* `key in j`: "True", "False", or "TypeError" where Python raises.
PyIn(key, j) ==
    CASE j.t = "object" -> IF key \in DOMAIN j.fields THEN "True" ELSE "False"
      [] j.t = "string" -> IF Contains(j.s, key) THEN "True" ELSE "False"
      [] j.t = "array" ->
            IF \E i \in 1..Len(j.items) : j.items[i] = JString(key) THEN "True" ELSE "False"
      [] OTHER -> "TypeError"

PyTypeError == [t |-> "TypeError"]

\* `j[key]` for a string key, where `key in j` was true: only a dict has it.
PyGetItem(j, key) == IF j.t = "object" THEN j.fields[key] ELSE PyTypeError

Continue(full) == [full |-> full, exc |-> None]
Raise(full, exc) == [full |-> full, exc |-> Some(exc)]

\* An exception raised inside the loop's try block: only JSONDecodeError is
\* caught there (the line is skipped); every other one leaves the loop.
InnerExcept(full, exc) == IF exc = "JSONDecodeError" THEN Continue(full) ELSE Raise(full, exc)

\* The cursor glyph shown after the text while the stream is read
\* (transliterated).
Cursor == "|"

\* (mutant) the cursor shown while streaming stays in the accumulated text.
ProcessChunkKeepsCursor(full, chunk) ==
    LET hasMessage == PyIn("message", chunk) IN
    IF hasMessage = "TypeError" THEN InnerExcept(full, "TypeError")
    ELSE IF hasMessage = "False" THEN Continue(full)
    ELSE LET message == PyGetItem(chunk, "message") IN
         IF message.t = "TypeError" THEN InnerExcept(full, "TypeError")
         ELSE LET hasContent == PyIn("content", message) IN
              IF hasContent = "TypeError" THEN InnerExcept(full, "TypeError")
              ELSE IF hasContent = "False" THEN Continue(full)
              ELSE LET content_chunk == PyGetItem(message, "content") IN
                   IF content_chunk.t # "string" THEN InnerExcept(full, "TypeError")
                   ELSE Continue(full \o content_chunk.s \o Cursor)

\* The body of the loop over response.iter_lines() for one decoded chunk.
ProcessChunk(full, chunk) ==
    LET hasMessage == PyIn("message", chunk) IN
    IF hasMessage = "TypeError" THEN InnerExcept(full, "TypeError")
    ELSE IF hasMessage = "False" THEN Continue(full)
    ELSE LET message == PyGetItem(chunk, "message") IN
         IF message.t = "TypeError" THEN InnerExcept(full, "TypeError")
         ELSE LET hasContent == PyIn("content", message) IN
              IF hasContent = "TypeError" THEN InnerExcept(full, "TypeError")
              ELSE IF hasContent = "False" THEN Continue(full)
              ELSE LET content_chunk == PyGetItem(message, "content") IN
                   IF content_chunk.t # "string" THEN InnerExcept(full, "TypeError")
                   ELSE Continue(full \o content_chunk.s)

ProcessLine(full, line) ==
    CASE line.kind = "raise" -> Raise(full, line.exc)
      [] line.kind = "empty" -> Continue(full)
      [] line.kind = "bad_utf8" -> InnerExcept(full, "UnicodeDecodeError")
      [] line.kind = "bad_json" -> InnerExcept(full, "JSONDecodeError")
      [] OTHER -> ProcessChunk(full, line.json)

\* for line in response.iter_lines(): ... ; stops at the first exception.
RECURSIVE ReadLines(_, _, _)
ReadLines(full, lines, i) ==
    IF i > Len(lines) THEN Continue(full)
    ELSE LET r == ProcessLine(full, lines[i]) IN
         IF IsNone(r.exc) THEN ReadLines(r.full, lines, i + 1) ELSE r

\* requests: the classes derived from requests.exceptions.ConnectionError.
ConnectionErrors == {"ConnectionError", "SSLError"}

\* response.raise_for_status(): HTTPError for a 4xx or 5xx status.
RaiseForStatus(status) == status >= 400 /\ status < 600

\* An answer of the endpoint: the exception requests.post raised (None when
\* a response arrived), the response's status and the lines of its body.
Outcome(post, status, lines) == [post |-> post, status |-> status, lines |-> lines]

\* The with-block of the request: post, raise_for_status, the loop.
Request(outcome) ==
    IF ~IsNone(outcome.post) THEN Raise("", Value(outcome.post))
    ELSE IF RaiseForStatus(outcome.status) THEN Raise("", "HTTPError")
    ELSE ReadLines("", outcome.lines, 1)

\* The exception classes the except clauses meet; all derive from Exception.
Exceptions ==
    ConnectionErrors \cup {"HTTPError", "ChunkedEncodingError", "MissingSchema",
                           "TypeError", "UnicodeDecodeError"}

Handled(text, exc) == [text |-> text, handled |-> Some(exc), escaped |-> None]

\* (mutant) the last clause keeps the fragments received before the failure.
ExceptKeepsPartial(r) ==
    IF IsNone(r.exc) THEN [text |-> r.full, handled |-> None, escaped |-> None]
    ELSE IF Value(r.exc) \in ConnectionErrors THEN Handled(ConnectionApology, Value(r.exc))
    ELSE IF Value(r.exc) = "HTTPError" THEN Handled(ApiApology, Value(r.exc))
    ELSE Handled(r.full \o GenericApology, Value(r.exc))

\* The three except clauses, in order; each replaces full_response.
Except(r) ==
    IF IsNone(r.exc) THEN [text |-> r.full, handled |-> None, escaped |-> None]
    ELSE IF Value(r.exc) \in ConnectionErrors THEN Handled(ConnectionApology, Value(r.exc))
    ELSE IF Value(r.exc) = "HTTPError" THEN Handled(ApiApology, Value(r.exc))
    ELSE IF Value(r.exc) \in Exceptions THEN Handled(GenericApology, Value(r.exc))
    ELSE [text |-> r.full, handled |-> None, escaped |-> r.exc]

Truthy(o) == ~IsNone(o) /\ Value(o) # ""
Format(o) == IF IsNone(o) THEN "None" ELSE Value(o)

DocumentWrapper(name, file_content) ==
    "The following is content from a file named '" \o Format(name) \o "':\n\n~~~\n"
        \o Value(file_content) \o "\n~~~\n\nPlease analyze this content in the context of our conversation."

\* (mutant) the filter forgets the upload confirmations.
FilterKeepsUploads(chat_history) ==
    SelectSeq(chat_history, LAMBDA msg : ~StartsWith(msg.content, ThinkingPlaceholder))
\* filtered_chat_history
Filter(chat_history) ==
    SelectSeq(chat_history, LAMBDA msg :
        /\ ~StartsWith(msg.content, "File '")
        /\ ~StartsWith(msg.content, ThinkingPlaceholder))

\* ollama_messages
OllamaMessages(user_prompt, chat_history, system_prompt, file_content, file_name) ==
    << Msg("system", system_prompt) >>
        \o (IF Truthy(file_content)
            THEN << Msg("user", DocumentWrapper(file_name, file_content)) >>
            ELSE << >>)
        \o Filter(chat_history)
        \o << Msg("user", user_prompt) >>

\* get_ollama_response: the text returned, the message list posted, whether the
\* document was injected, and the exception an except clause handled (None on
\* a completed stream).
get_ollama_response(user_prompt, chat_history, file_content, file_name, outcome) ==
    LET ollama_messages ==
            OllamaMessages(user_prompt, chat_history, DEFAULT_SYSTEM_PROMPT, file_content, file_name)
        r == Except(Request(outcome))
    IN [full_response |-> r.text,
        messages |-> ollama_messages,
        document |-> Truthy(file_content),
        handled |-> r.handled,
        escaped |-> r.escaped]

\* ---------------------------------------------------------- the session
VARIABLES
    messages,                 \* st.session_state.messages
    uploaded_file_content,    \* st.session_state.uploaded_file_content
    uploaded_file_name,       \* st.session_state.uploaded_file_name
    file_analysis_triggered,  \* st.session_state.file_analysis_triggered
    current_flow,             \* st.session_state.current_flow
    last_button_click,        \* st.session_state.last_button_click
    uploaded_file,            \* the file held by the file_uploader widget
    shown,                    \* keys of the buttons the last run put on the page
    displayed,                \* what display_chat_history put on the page in the last run
    rerun,                    \* a script run is due with no user event
    turn,                     \* the user event that began the current chain of runs
    calls,                    \* the get_ollama_response calls of the current turn
    events                    \* user events so far

vars ==
    << messages, uploaded_file_content, uploaded_file_name, file_analysis_triggered,
       current_flow, last_button_click, uploaded_file, shown, displayed, rerun, turn, calls,
       events >>

\* The session state a run works on, with what the run produces.
Session ==
    [messages |-> messages,
     uploaded_file_content |-> uploaded_file_content,
     uploaded_file_name |-> uploaded_file_name,
     file_analysis_triggered |-> file_analysis_triggered,
     current_flow |-> current_flow,
     last_button_click |-> last_button_click,
     shown |-> {},
     displayed |-> None,
     rerun |-> FALSE,
     calls |-> << >>]

\* Events of a run: none, a click on a button, a submitted chat input (the
\* uploader's file is widget state, read by every run).
NoEvent == [type |-> "none"]
ClickEvent(key) == [type |-> "click", key |-> key]
ChatEvent(prompt) == [type |-> "chat", prompt |-> prompt]
UploadEvent(file) == [type |-> "upload", file |-> file]

\* st.button(label, key=key): shows the button, TRUE in the run its click began.
Pressed(ev, key) == ev.type = "click" /\ ev.key = key

\* f"btn_{flow}_{st.session_state.current_flow}_{i}"
ButtonKey(flow, current, i) == "btn_" \o flow \o "_" \o current \o "_" \o ToString(i)

Append2(log, m1, m2) == Append(Append(log, m1), m2)

\* display_options_buttons: the buttons are made in order (enumerate counts
\* from 0); the first pressed one stores its label and flow and ends the run.
RECURSIVE OptionsFrom(_, _, _, _)
OptionsFrom(s, options, ev, i) ==
    IF i > Len(options) THEN s
    ELSE LET key == ButtonKey(options[i].flow, s.current_flow, i - 1)
             t == [s EXCEPT !.shown = @ \cup {key}]
         IN IF Pressed(ev, key)
            THEN [t EXCEPT !.last_button_click = Some(options[i].label),
                           !.current_flow = options[i].flow,
                           !.rerun = TRUE]
            ELSE OptionsFrom(t, options, ev, i + 1)

display_options_buttons(s, options, ev) == OptionsFrom(s, options, ev, 1)

\* if st.button("Back to Main Menu", key=key): current_flow = FLOW_WELCOME; st.rerun()
BackButton(s, key, ev) ==
    LET t == [s EXCEPT !.shown = @ \cup {key}]
    IN IF Pressed(ev, key)
       THEN [t EXCEPT !.current_flow = FLOW_WELCOME, !.rerun = TRUE]
       ELSE t

\* display_chat_history: every message of the log is drawn, below the buttons
\* the run has already made.
display_chat_history(s) ==
    [s EXCEPT !.displayed = Some([messages |-> s.messages, below |-> s.shown])]

LastContent(log) == log[Len(log)].content
\* not messages or messages[-1]["content"] != line
LastIsNot(log, line) == Len(log) = 0 \/ LastContent(log) # line

\* The entry guard of a button-entered stage.
EntryGuard(s, label, line) ==
    /\ s.last_button_click = Some(label)
    /\ LastIsNot(s.messages, line)

\* (mutant) the entry action forgets the reset of last_button_click.
EntryKeepsSelection(s, label, lines) ==
    [s EXCEPT !.messages = Append(@, Msg("user", label))
                             \o [i \in 1..Len(lines) |-> Msg("assistant", lines[i])]]

\* The user's click and the stage's canned lines, then the reset.
Entry(s, label, lines) ==
    [s EXCEPT !.messages = Append(@, Msg("user", label))
                             \o [i \in 1..Len(lines) |-> Msg("assistant", lines[i])],
              !.last_button_click = None]

\* (mutant) the greeting is appended without looking at the log's last message.
WelcomeFlowUnguarded(s, ev) ==
    display_options_buttons(
        display_chat_history([s EXCEPT !.messages = Append(@, Msg("assistant", WelcomeGreeting))]),
        WelcomeOptions, ev)

WelcomeFlow(s, ev) ==
    LET t == IF LastIsNot(s.messages, WelcomeGreeting)
             THEN [s EXCEPT !.messages = Append(@, Msg("assistant", WelcomeGreeting))]
             ELSE s
    IN display_options_buttons(display_chat_history(t), WelcomeOptions, ev)

NewBusinessStartFlow(s, ev) ==
    LET t == IF EntryGuard(s, LabelJustStarting, NewBusinessStartLine)
             THEN Entry(s, LabelJustStarting, << NewBusinessStartLine >>)
             ELSE s
    IN display_options_buttons(display_chat_history(t), NewBusinessStartOptions, ev)

NewBusinessIdeaFlow(s, ev) ==
    LET t == IF EntryGuard(s, LabelHaveIdea, NewBusinessIdeaLine)
             THEN Entry(s, LabelHaveIdea, << NewBusinessIdeaLine, NewBusinessIdeaPlaceholder >>)
             ELSE s
    IN BackButton(display_chat_history(t), "back_to_welcome_idea", ev)

NewBusinessNoIdeaFlow(s, ev) ==
    LET t == IF EntryGuard(s, LabelNoIdea, NewBusinessNoIdeaLine)
             THEN Entry(s, LabelNoIdea, << NewBusinessNoIdeaLine, NewBusinessNoIdeaPlaceholder >>)
             ELSE s
    IN BackButton(display_chat_history(t), "back_to_welcome_no_idea", ev)

ExistingBusinessNeedsFlow(s, ev) ==
    LET t == IF EntryGuard(s, LabelAlreadyRun, ExistingBusinessNeedsLine)
             THEN Entry(s, LabelAlreadyRun, << ExistingBusinessNeedsLine >>)
             ELSE s
    IN display_options_buttons(display_chat_history(t), ExistingBusinessNeedsOptions, ev)

LearnMoreTopicsFlow(s, ev) ==
    LET t == IF EntryGuard(s, LabelLearnMore, LearnMoreTopicsLine)
             THEN Entry(s, LabelLearnMore, << LearnMoreTopicsLine >>)
             ELSE s
    IN display_options_buttons(display_chat_history(t), LearnMoreTopicsOptions, ev)

\* (mutant) the free-text stage echoes the pending click and keeps it.
FreeTextFlowKeepsSelection(s, ev) ==
    LET t == IF ~IsNone(s.last_button_click)
             THEN [s EXCEPT !.messages = Append(@, Msg("user", Value(s.last_button_click))),
                            !.current_flow = FLOW_FREE_TEXT]
             ELSE s
    IN BackButton(display_chat_history(t), "back_to_welcome_free_text", ev)

\* (mutant) the free-text stage sends the echoed click to the model and appends
\* the answer.
FreeTextFlowAsksModel(s, ev) ==
    LET t == IF ~IsNone(s.last_button_click)
             THEN LET u == [s EXCEPT !.messages = Append(@, Msg("user", Value(s.last_button_click))),
                                     !.last_button_click = None,
                                     !.current_flow = FLOW_FREE_TEXT]
                      assistant_response ==
                          get_ollama_response(Value(s.last_button_click), u.messages, None,
                                              u.uploaded_file_name, Outcome(None, 200, << >>))
                  IN [u EXCEPT !.messages = Append(@, Msg("assistant", assistant_response.full_response)),
                               !.calls = Append(@, [site |-> "chat",
                                                    outcome |-> Outcome(None, 200, << >>),
                                                    result |-> assistant_response])]
             ELSE s
    IN BackButton(display_chat_history(t), "back_to_welcome_free_text", ev)

\* FLOW_FREE_TEXT or FLOW_FILE_ANALYSIS: a pending click is echoed and reset.
FreeTextFlow(s, ev) ==
    LET t == IF ~IsNone(s.last_button_click)
             THEN [s EXCEPT !.messages = Append(@, Msg("user", Value(s.last_button_click))),
                            !.last_button_click = None,
                            !.current_flow = FLOW_FREE_TEXT]
             ELSE s
    IN BackButton(display_chat_history(t), "back_to_welcome_free_text", ev)

\* The if/elif chain over current_flow; FLOW_HUMAN_SUPPORT has no branch.
FlowLogic(s, ev) ==
    CASE s.current_flow = FLOW_WELCOME -> WelcomeFlow(s, ev)
      [] s.current_flow = FLOW_NEW_BUSINESS_START -> NewBusinessStartFlow(s, ev)
      [] s.current_flow = FLOW_NEW_BUSINESS_IDEA -> NewBusinessIdeaFlow(s, ev)
      [] s.current_flow = FLOW_NEW_BUSINESS_NO_IDEA -> NewBusinessNoIdeaFlow(s, ev)
      [] s.current_flow = FLOW_EXISTING_BUSINESS_NEEDS -> ExistingBusinessNeedsFlow(s, ev)
      [] s.current_flow = FLOW_LEARN_MORE_TOPICS -> LearnMoreTopicsFlow(s, ev)
      [] s.current_flow \in {FLOW_FREE_TEXT, FLOW_FILE_ANALYSIS} -> FreeTextFlow(s, ev)
      [] OTHER -> s

UploadConfirmation(name) == "File '" \o name \o "' uploaded successfully. Analyzing content..."

Call(site, outcome, result) == [site |-> site, outcome |-> outcome, result |-> result]

\* (mutant) the analysis is handed the message log.
AnalysisHistoryIsLog(s) == s.messages

\* The history handed to the automatic analysis: chat_history=[]
AnalysisHistory(s) == << >>

\* (mutant) the analysis result takes the place of the log's last message.
AnalysisReplacesConfirmation(s, outcome) ==
    LET initial_analysis_response ==
            get_ollama_response(FILE_ANALYSIS_TRIGGER_PROMPT, AnalysisHistory(s),
                                s.uploaded_file_content, s.uploaded_file_name, outcome)
    IN [s EXCEPT !.messages = Append(SubSeq(@, 1, Len(@) - 1),
                                     Msg("assistant", initial_analysis_response.full_response)),
                 !.file_analysis_triggered = TRUE,
                 !.current_flow = FLOW_FREE_TEXT,
                 !.calls = Append(@, Call("analysis", outcome, initial_analysis_response)),
                 !.rerun = TRUE]

\* The automatic analysis of a stored document that is not yet analyzed.
Analysis(s, outcome) ==
    LET initial_analysis_response ==
            get_ollama_response(FILE_ANALYSIS_TRIGGER_PROMPT, AnalysisHistory(s),
                                s.uploaded_file_content, s.uploaded_file_name, outcome)
    IN [s EXCEPT !.messages = Append(@, Msg("assistant", initial_analysis_response.full_response)),
                 !.file_analysis_triggered = TRUE,
                 !.current_flow = FLOW_FREE_TEXT,
                 !.calls = Append(@, Call("analysis", outcome, initial_analysis_response)),
                 !.rerun = TRUE]

\* (mutant) the analysis is due whenever a non-empty document is stored.
AnalysisDueIgnoresFlag(s) == Truthy(s.uploaded_file_content)

\* if current_file_content and not st.session_state.file_analysis_triggered
AnalysisDue(s) == Truthy(s.uploaded_file_content) /\ ~s.file_analysis_triggered

\* (mutant) the held file is compared with the stored one by content.
FileUploaderComparesContent(s, file, outcome) ==
    IF IsNone(file) THEN s
    ELSE IF s.uploaded_file_content # Some(Value(file).content)
    THEN [s EXCEPT !.uploaded_file_name = Some(Value(file).name),
                   !.uploaded_file_content = Some(Value(file).content),
                   !.file_analysis_triggered = FALSE,
                   !.messages = Append(@, Msg("assistant", UploadConfirmation(Value(file).name))),
                   !.current_flow = FLOW_FILE_ANALYSIS,
                   !.rerun = TRUE]
    ELSE IF AnalysisDue(s) THEN Analysis(s, outcome)
    ELSE s

\* The file uploader section: a file with another name than the stored one is
\* stored and the run ends; otherwise the analysis runs when it is due.
FileUploader(s, file, outcome) ==
    IF IsNone(file) THEN s
    ELSE IF s.uploaded_file_name # Some(Value(file).name)
    THEN [s EXCEPT !.uploaded_file_name = Some(Value(file).name),
                   !.uploaded_file_content = Some(Value(file).content),
                   !.file_analysis_triggered = FALSE,
                   !.messages = Append(@, Msg("assistant", UploadConfirmation(Value(file).name))),
                   !.current_flow = FLOW_FILE_ANALYSIS,
                   !.rerun = TRUE]
    ELSE IF AnalysisDue(s) THEN Analysis(s, outcome)
    ELSE s

\* (mutant) the command is compared without lower().
IsLiveAgentCaseSensitive(prompt) == prompt = "live agent"

\* prompt.lower() == "live agent"
IsLiveAgent(prompt) == Lower(prompt) = "live agent"

\* The history handed to the model for a typed turn: st.session_state.messages,
\* read after the prompt was appended to it.
ChatHistory(s) == s.messages

\* file_content=... if st.session_state.file_analysis_triggered else None
ChatFileContent(s) == IF s.file_analysis_triggered THEN s.uploaded_file_content ELSE None

\* (mutant) every typed input moves the session to the free-text stage.
ChatInputAlwaysFreeText(s, ev, outcome) ==
    IF ev.type # "chat" THEN s
    ELSE
    LET prompt == ev.prompt
        u == [s EXCEPT !.current_flow = FLOW_FREE_TEXT,
                       !.messages = Append(@, Msg("user", prompt))]
    IN IF IsLiveAgent(prompt)
       THEN [u EXCEPT !.messages = Append(@, Msg("assistant", LiveAgentLine)),
                      !.current_flow = FLOW_HUMAN_SUPPORT,
                      !.rerun = TRUE]
       ELSE LET assistant_response ==
                    get_ollama_response(prompt, ChatHistory(u), ChatFileContent(u),
                                        u.uploaded_file_name, outcome)
            IN [u EXCEPT !.messages = Append(@, Msg("assistant", assistant_response.full_response)),
                         !.calls = Append(@, Call("chat", outcome, assistant_response))]

\* (mutant) a failed request of a typed turn is issued a second time.
ChatInputRetries(s, ev, outcome) ==
    IF ev.type # "chat" THEN s
    ELSE
    LET prompt == ev.prompt
        f == IF s.current_flow \notin {FLOW_FREE_TEXT, FLOW_FILE_ANALYSIS}
             THEN [s EXCEPT !.current_flow = FLOW_FREE_TEXT]
             ELSE s
        u == [f EXCEPT !.messages = Append(@, Msg("user", prompt))]
    IN IF IsLiveAgent(prompt)
       THEN [u EXCEPT !.messages = Append(@, Msg("assistant", LiveAgentLine)),
                      !.current_flow = FLOW_HUMAN_SUPPORT,
                      !.rerun = TRUE]
       ELSE LET assistant_response ==
                    get_ollama_response(prompt, ChatHistory(u), ChatFileContent(u),
                                        u.uploaded_file_name, outcome)
                call == Call("chat", outcome, assistant_response)
            IN [u EXCEPT !.messages = Append(@, Msg("assistant", assistant_response.full_response)),
                         !.calls = IF IsNone(assistant_response.handled)
                                   THEN Append(@, call)
                                   ELSE Append(Append(@, call), call)]

\* The chat input section.
ChatInput(s, ev, outcome) ==
    IF ev.type # "chat" THEN s
    ELSE
    LET prompt == ev.prompt
        f == IF s.current_flow \notin {FLOW_FREE_TEXT, FLOW_FILE_ANALYSIS}
             THEN [s EXCEPT !.current_flow = FLOW_FREE_TEXT]
             ELSE s
        u == [f EXCEPT !.messages = Append(@, Msg("user", prompt))]
    IN IF IsLiveAgent(prompt)
       THEN [u EXCEPT !.messages = Append(@, Msg("assistant", LiveAgentLine)),
                      !.current_flow = FLOW_HUMAN_SUPPORT,
                      !.rerun = TRUE]
       ELSE LET assistant_response ==
                    get_ollama_response(prompt, ChatHistory(u), ChatFileContent(u),
                                        u.uploaded_file_name, outcome)
            IN [u EXCEPT !.messages = Append(@, Msg("assistant", assistant_response.full_response)),
                         !.calls = Append(@, Call("chat", outcome, assistant_response))]

\* The human support section: no st.rerun() after the button's message.
HumanSupport(s, ev) ==
    IF s.current_flow # FLOW_HUMAN_SUPPORT THEN s
    ELSE LET t == [s EXCEPT !.shown = @ \cup {"human_expert_button"}]
         IN IF Pressed(ev, "human_expert_button")
            THEN [t EXCEPT !.messages = Append(@, Msg("assistant", HumanExpertLine)),
                           !.current_flow = FLOW_FREE_TEXT]
            ELSE t

\* st.rerun() ends the run where it is called: the later sections are skipped.
ThenFileUploader(s, file, outcome) == IF s.rerun THEN s ELSE FileUploader(s, file, outcome)
ThenChatInput(s, ev, outcome) == IF s.rerun THEN s ELSE ChatInput(s, ev, outcome)
ThenHumanSupport(s, ev) == IF s.rerun THEN s ELSE HumanSupport(s, ev)

Only(S) == CHOOSE x \in S : TRUE

\* One run of main(): the sections in script order, each working on the
\* session state the one before it left.
main(ev, file, outcome) ==
    Only({ThenHumanSupport(c, ev) :
            c \in {ThenChatInput(b, ev, outcome) :
                    b \in {ThenFileUploader(a, file, outcome) :
                            a \in {FlowLogic(s, ev) : s \in {Session}}}}})

\* ------------------------------------------------------------ the inputs
Prompts == {"hello", "live agent", "Live Agent", "LIVE AGENT", "File 'x' is my plan"}

Files ==
    {[name |-> "notes.txt", content |-> "Q1 revenue $5000"],
     [name |-> "notes.txt", content |-> "Q2"],
     [name |-> "empty.md", content |-> ""]}

NoAnswer == Outcome(None, 200, << >>)

\* The endpoint's answers a session meets.
SessionOutcomes ==
    {Outcome(None, 200, << Fragment("Sure"), Fragment("."), DoneLine >>),
     NoAnswer,
     Outcome(Some("ConnectionError"), 0, << >>),
     Outcome(None, 500, << >>),
     Outcome(None, 200, << Fragment("Su"), RaiseLine("ChunkedEncodingError") >>),
     Outcome(None, 200, << Fragment("File 'x'"), BadJsonLine, Fragment(" ok") >>)}

\* The answers that matter to a run: one placeholder when the run calls nothing.
OutcomesFor(ev, file) ==
    IF main(ev, file, NoAnswer).calls = << >> THEN {NoAnswer} ELSE SessionOutcomes

\* ------------------------------------------------------------ the actions
Init ==
    /\ messages = << >>
    /\ uploaded_file_content = None
    /\ uploaded_file_name = None
    /\ file_analysis_triggered = FALSE
    /\ current_flow = FLOW_WELCOME
    /\ last_button_click = None
    /\ uploaded_file = None
    /\ shown = {}
    /\ displayed = None
    /\ rerun = TRUE
    /\ turn = [event |-> [type |-> "load"], messages |-> << >>, flow |-> FLOW_WELCOME,
               uploaded_file_name |-> None, uploaded_file_content |-> None,
               file_analysis_triggered |-> FALSE, cycles |-> 0]
    /\ calls = << >>
    /\ events = 0

\* The session after the run that `ev` began, with the file the uploader holds.
Commit(s) ==
    /\ messages' = s.messages
    /\ uploaded_file_content' = s.uploaded_file_content
    /\ uploaded_file_name' = s.uploaded_file_name
    /\ file_analysis_triggered' = s.file_analysis_triggered
    /\ current_flow' = s.current_flow
    /\ last_button_click' = s.last_button_click
    /\ shown' = s.shown
    /\ displayed' = s.displayed
    /\ rerun' = s.rerun

\* A user event begins a turn.
Begin(ev, s) ==
    /\ turn' = [event |-> ev, messages |-> messages, flow |-> current_flow,
                uploaded_file_name |-> uploaded_file_name,
                uploaded_file_content |-> uploaded_file_content,
                file_analysis_triggered |-> file_analysis_triggered, cycles |-> 1]
    /\ calls' = s.calls
    /\ events' = events + 1

UserMayAct == ~rerun /\ events < MaxEvents

\* The run st.rerun() asked for, and the first run of the session.
Rerun ==
    /\ rerun
    /\ \E outcome \in OutcomesFor(NoEvent, uploaded_file) :
        \E s \in {main(NoEvent, uploaded_file, outcome)} :
        /\ Commit(s)
        /\ calls' = calls \o s.calls
    /\ turn' = [turn EXCEPT !.cycles = @ + 1]
    /\ UNCHANGED << uploaded_file, events >>

\* A run no user event began (the page is drawn again).
Render ==
    /\ UserMayAct
    /\ \E outcome \in OutcomesFor(NoEvent, uploaded_file) :
        \E s \in {main(NoEvent, uploaded_file, outcome)} :
        Commit(s) /\ Begin(NoEvent, s)
    /\ UNCHANGED uploaded_file

\* The user clicks a button that is on the page.
Click ==
    /\ UserMayAct
    /\ \E key \in shown :
       \E outcome \in OutcomesFor(ClickEvent(key), uploaded_file) :
        \E s \in {main(ClickEvent(key), uploaded_file, outcome)} :
        Commit(s) /\ Begin(ClickEvent(key), s)
    /\ UNCHANGED uploaded_file

\* The user submits a text in the chat input.
Chat ==
    /\ UserMayAct
    /\ \E prompt \in Prompts :
       \E outcome \in OutcomesFor(ChatEvent(prompt), uploaded_file) :
        \E s \in {main(ChatEvent(prompt), uploaded_file, outcome)} :
        Commit(s) /\ Begin(ChatEvent(prompt), s)
    /\ UNCHANGED uploaded_file

\* The user puts a file into the uploader, or takes the file out of it.
Upload ==
    /\ UserMayAct
    /\ \E file \in {Some(f) : f \in Files} \cup {None} :
        /\ file # uploaded_file
        /\ uploaded_file' = file
        /\ \E outcome \in OutcomesFor(NoEvent, file) :
            \E s \in {main(NoEvent, file, outcome)} :
            Commit(s) /\ Begin(UploadEvent(file), s)

Next == Rerun \/ Render \/ Click \/ Chat \/ Upload

Spec == Init /\ [][Next]_vars

\* ------------------------------------------------- the client on its own
Statuses == {200, 304, 404, 500}

ClientLines ==
    {EmptyLine, BadUtf8Line, BadJsonLine, DoneLine,
     Fragment("Hel"), Fragment("lo"), Fragment(""),
     JsonLine(JNumber), JsonLine(JNull),
     JsonLine(JString("ok")), JsonLine(JString("message")),
     JsonLine(JArray(<< JString("message") >>)),
     JsonLine(JObject([message |-> JNull])),
     JsonLine(JObject([message |-> JString("hi")])),
     JsonLine(JObject([message |-> JString("content")])),
     JsonLine(JObject([message |-> JObject([role |-> JString("assistant")])])),
     JsonLine(JObject([message |-> JObject([content |-> JNumber])])),
     RaiseLine("ChunkedEncodingError"), RaiseLine("SSLError")}

RECURSIVE SeqsUpTo(_, _)
SeqsUpTo(S, n) ==
    IF n = 0 THEN {<< >>}
    ELSE LET shorter == SeqsUpTo(S, n - 1)
         IN shorter \cup {Append(q, x) : q \in {r \in shorter : Len(r) = n - 1}, x \in S}

ClientOutcomes ==
    {Outcome(Some(exc), 0, << >>) : exc \in {"ConnectionError", "MissingSchema"}}
        \cup {Outcome(None, status, lines) : status \in Statuses,
                                            lines \in SeqsUpTo(ClientLines, MaxLines)}

\* get_ollama_response called on its own with one answer of the endpoint.
ClientCall ==
    /\ calls = << >>
    /\ \E outcome \in ClientOutcomes :
        calls' = << Call("client", outcome,
                         get_ollama_response("hello", << >>, None, None, outcome)) >>
    /\ UNCHANGED << messages, uploaded_file_content, uploaded_file_name,
                    file_analysis_triggered, current_flow, last_button_click,
                    uploaded_file, shown, displayed, rerun, turn, events >>

SpecClient == Init /\ [][ClientCall]_vars

\* =================================================================== claims
AllCalls == {calls[i] : i \in 1..Len(calls)}

\* A line that is a chunk as the endpoint's contract has it: a JSON object with
\* an object-valued message whose content is text.
WellFormed(line) ==
    /\ line.kind = "json"
    /\ line.json.t = "object"
    /\ "message" \in DOMAIN line.json.fields
    /\ line.json.fields.message.t = "object"
    /\ "content" \in DOMAIN line.json.fields.message.fields
    /\ line.json.fields.message.fields.content.t = "string"

FragmentOf(line) == IF WellFormed(line) THEN line.json.fields.message.fields.content.s ELSE ""

RECURSIVE Fragments(_)
Fragments(lines) ==
    IF lines = << >> THEN "" ELSE FragmentOf(Head(lines)) \o Fragments(Tail(lines))

Apologies == {ConnectionApology, ApiApology, GenericApology}

\* The response arrived and its stream ended without a transport failure.
StreamCompleted(o) ==
    /\ IsNone(o.post)
    /\ ~RaiseForStatus(o.status)
    /\ \A i \in 1..Len(o.lines) : o.lines[i].kind # "raise"

\* C4 (as claimed): get_ollama_response never returns an empty string, whatever
\* the request's outcome, a completed stream without any fragment included.
C4_NeverEmpty == \A c \in AllCalls : c.result.full_response # ""

\* The transport fails at line i of the stream, after well-formed chunks only.
FailsMidStream(o, i) ==
    /\ IsNone(o.post)
    /\ ~RaiseForStatus(o.status)
    /\ i \in 1..Len(o.lines)
    /\ o.lines[i].kind = "raise"
    /\ \A j \in 1..(i - 1) : WellFormed(o.lines[j])

ApologyFor(exc) == IF exc \in ConnectionErrors THEN ConnectionApology ELSE GenericApology

\* What C5 says of every failure but the HTTP one: the failure's apology and
\* nothing else is returned, and no exception leaves the function.
C5_Recovery(c) ==
    /\ IsNone(c.result.escaped)
    /\ ~IsNone(c.outcome.post) => c.result.full_response = ApologyFor(Value(c.outcome.post))
    /\ \A i \in 1..Len(c.outcome.lines) :
          FailsMidStream(c.outcome, i)
              => c.result.full_response = ApologyFor(c.outcome.lines[i].exc)
    /\ ~IsNone(c.result.handled) => c.result.full_response \in Apologies

\* C5 (as claimed): every failure is recovered into its apology text, a response
\* with any status outside 2xx into the API apology.
C5_NonSuccessStatusApology ==
    \A c \in AllCalls :
        /\ C5_Recovery(c)
        /\ (IsNone(c.outcome.post) /\ c.outcome.status \notin 200..299)
              => c.result.full_response = ApiApology

\* C5 (amended): every failure is recovered into its apology text (a failure of
\* a ConnectionError class into the connection apology, another one into the
\* generic apology, with no streamed fragment left in the text), and a response
\* with a 4xx or 5xx status into the API apology; no exception escapes.
C5_FailuresRecovered ==
    \A c \in AllCalls :
        /\ C5_Recovery(c)
        /\ (IsNone(c.outcome.post) /\ c.outcome.status \in 400..599)
              => c.result.full_response = ApiApology

\* C5 witness: a stream failed after a fragment had arrived, and the generic
\* apology alone was returned.
C5_Witness ==
    \E c \in AllCalls :
        /\ FailsMidStream(c.outcome, 2)
        /\ FragmentOf(c.outcome.lines[1]) # ""
        /\ c.outcome.lines[2].exc \notin ConnectionErrors
        /\ c.result.full_response = GenericApology

\* C6 (as claimed): in a stream that ends without a transport failure, lines
\* that are not well-formed chunks are skipped: the text returned is the
\* concatenation of the well-formed lines' fragments, and no apology.
C6_MalformedSkipped ==
    \A c \in AllCalls :
        StreamCompleted(c.outcome)
            => /\ c.result.full_response = Fragments(c.outcome.lines)
               /\ IsNone(c.result.handled)

\* ------------------------------------------------------ claims on the session
IsPrefix(p, q) == Len(p) <= Len(q) /\ SubSeq(q, 1, Len(p)) = p

\* The messages the current turn has appended to the log.
NewMessages == SubSeq(messages, Len(turn.messages) + 1, Len(messages))

\* The options a stage offers (the stage table).
StageOptions(flow) ==
    CASE flow = FLOW_WELCOME -> WelcomeOptions
      [] flow = FLOW_NEW_BUSINESS_START -> NewBusinessStartOptions
      [] flow = FLOW_EXISTING_BUSINESS_NEEDS -> ExistingBusinessNeedsOptions
      [] flow = FLOW_LEARN_MORE_TOPICS -> LearnMoreTopicsOptions
      [] OTHER -> << >>

\* The turn began with a click on option i of the stage the session was in.
ClickedOption(i) ==
    /\ turn.event.type = "click"
    /\ i \in 1..Len(StageOptions(turn.flow))
    /\ turn.event.key = ButtonKey(StageOptions(turn.flow)[i].flow, turn.flow, i - 1)

\* C1: after a click on an option (label -> target) of the current stage and the
\* run the click asks for, the log has gained exactly one user message, the
\* label; current_flow is the target; last_button_click is None.
C1_OptionClick ==
    \A i \in 1..6 :
        (ClickedOption(i) /\ ~rerun)
            => /\ IsPrefix(turn.messages, messages)
               /\ SelectSeq(NewMessages, LAMBDA m : m.role = "user")
                      = << Msg("user", StageOptions(turn.flow)[i].label) >>
               /\ current_flow = StageOptions(turn.flow)[i].flow
               /\ last_button_click = None

\* C1 witness: an option of ExistingBusinessNeeds that targets FreeText was
\* clicked and the following run is over.
C1_Witness ==
    /\ turn.flow = FLOW_EXISTING_BUSINESS_NEEDS
    /\ ClickedOption(2)
    /\ ~rerun
    /\ current_flow = FLOW_FREE_TEXT
    /\ messages[Len(messages)] = Msg("user", "Check funding eligibility")

GreetingMessage == Msg("assistant", WelcomeGreeting)

\* C2: a run that no user event began, in a session where no run is due, leaves
\* the log as it is; and the log never holds the greeting message twice in a row.
C2_RenderIdempotent ==
    /\ [][(~rerun /\ turn'.event.type = "none") => messages' = messages]_vars
    /\ [](\A i \in 1..(Len(messages) - 1) :
            ~(messages[i] = GreetingMessage /\ messages[i + 1] = GreetingMessage))

\* C2 witness: the Welcome stage, entered again from the main-menu button, was
\* drawn once more without an event.
C2_Witness ==
    /\ turn.event.type = "none"
    /\ ~rerun
    /\ current_flow = FLOW_WELCOME
    /\ Len(messages) > 1
    /\ messages[Len(messages)] = GreetingMessage

LiveAgentTexts == {"live agent", "Live Agent", "LIVE AGENT"}

\* C3: a typed "live agent", in any letter case and in any stage, appends the
\* user message and the hand-off line, sets current_flow to human_support, and
\* no model request is made in the turn.
C3_LiveAgent ==
    (turn.event.type = "chat" /\ turn.event.prompt \in LiveAgentTexts)
        => /\ messages = Append2(turn.messages, Msg("user", turn.event.prompt),
                                 Msg("assistant", LiveAgentLine))
           /\ current_flow = FLOW_HUMAN_SUPPORT
           /\ calls = << >>

\* C3 witness: the command was typed in capitals in the FileAnalysis stage and
\* the turn is over.
C3_Witness ==
    /\ turn.event = ChatEvent("LIVE AGENT")
    /\ turn.flow = FLOW_FILE_ANALYSIS
    /\ ~rerun
    /\ current_flow = FLOW_HUMAN_SUPPORT

\* The messages of a request between the system prompt (and the document
\* wrapper, when the document is injected) and the closing user prompt.
HistoryPortion(r) ==
    SubSeq(r.messages, (IF r.document THEN 3 ELSE 2), Len(r.messages) - 1)

\* The wrapper message of the stored document.
StoredDocumentMessages ==
    << Msg("user", DocumentWrapper(uploaded_file_name, uploaded_file_content)) >>

\* C7 (as claimed): the list sent for a typed turn is the system prompt, the
\* document wrapper when the document is injected, the filtered log as it was
\* before the turn, and the typed prompt, once, as the last element.
C7_PromptOnce ==
    \A c \in AllCalls :
        c.site = "chat"
            => c.result.messages
                   = << Msg("system", DEFAULT_SYSTEM_PROMPT) >>
                        \o (IF c.result.document THEN StoredDocumentMessages ELSE << >>)
                        \o Filter(turn.messages)
                        \o << Msg("user", turn.event.prompt) >>

IsStatusLine(content) ==
    StartsWith(content, "File '") \/ StartsWith(content, ThinkingPlaceholder)

\* C8: no request's history portion holds a message that starts with the
\* upload-confirmation prefix or with the thinking-placeholder prefix.
C8_NoStatusLines ==
    \A c \in AllCalls :
        \A i \in 1..Len(HistoryPortion(c.result)) :
            ~IsStatusLine(HistoryPortion(c.result)[i].content)

\* C8 witness: a typed turn called the model while the log held an upload
\* confirmation.
C8_Witness ==
    /\ \E c \in AllCalls : c.site = "chat"
    /\ \E i \in 1..Len(turn.messages) :
          /\ turn.messages[i].role = "assistant"
          /\ StartsWith(turn.messages[i].content, "File '")

\* The turn began with the upload of a file named otherwise than the stored one.
UploadedNew ==
    /\ turn.event.type = "upload"
    /\ ~IsNone(turn.event.file)
    /\ turn.uploaded_file_name # Some(Value(turn.event.file).name)

\* C9 (as claimed): the upload of a differently named document, whatever its
\* content, stores it unanalyzed, appends the confirmation and sets the stage to
\* file_analysis; the next run makes exactly one analysis call, appends its
\* result, marks the document analyzed and moves to free_text.
C9_UploadThenAnalysis ==
    UploadedNew =>
        LET file == Value(turn.event.file)
            confirmed == Append(turn.messages, Msg("assistant", UploadConfirmation(file.name)))
        IN /\ uploaded_file_name = Some(file.name)
           /\ uploaded_file_content = Some(file.content)
           /\ turn.cycles = 1
                => /\ ~file_analysis_triggered
                   /\ messages = confirmed
                   /\ current_flow = FLOW_FILE_ANALYSIS
                   /\ calls = << >>
           /\ turn.cycles >= 2
                => /\ Len(calls) = 1
                   /\ calls[1].site = "analysis"
                   /\ messages = Append(confirmed, Msg("assistant", calls[1].result.full_response))
                   /\ file_analysis_triggered
                   /\ current_flow = FLOW_FREE_TEXT

\* C10: the list sent for the automatic analysis is the system prompt, the
\* document wrapper and the analysis-trigger prompt, whatever the log holds.
C10_AnalysisHistoryFree ==
    \A c \in AllCalls :
        c.site = "analysis"
            => c.result.messages
                   = << Msg("system", DEFAULT_SYSTEM_PROMPT) >>
                        \o StoredDocumentMessages
                        \o << Msg("user", FILE_ANALYSIS_TRIGGER_PROMPT) >>

\* C10 witness: the analysis was called in a session whose log held a typed
\* message and the model's answer to it.
C10_Witness ==
    /\ \E c \in AllCalls : c.site = "analysis"
    /\ \E i \in 1..Len(turn.messages) : turn.messages[i].role = "user"
    /\ Len(turn.messages) >= 3


\* C11: the message log is append-only: across every step of the session the
\* log before the step is a prefix of the log after it; no step removes,
\* reorders or rewrites a message.
C11_AppendOnly == [][IsPrefix(messages, messages')]_vars

\* A turn whose model request failed has ended, and the log is the log the
\* turn began with followed by what the turn appended, the apology last.
C11_Witness ==
    /\ ~rerun
    /\ Len(calls) = 1
    /\ ~IsNone(calls[1].result.handled)
    /\ Len(messages) > Len(turn.messages) + 1
    /\ IsPrefix(turn.messages, messages)
    /\ LastContent(messages) \in Apologies

\* C12: last_button_click is never kept across two runs: it holds a label only
\* between the run an option click ended and the run that click asked for (the
\* label is the clicked option's); at the end of every other run it is None.
C12_SelectionConsumed ==
    ~IsNone(last_button_click)
        => /\ rerun
           /\ turn.cycles = 1
           /\ \E i \in 1..6 :
                /\ ClickedOption(i)
                /\ last_button_click = Some(StageOptions(turn.flow)[i].label)

\* An option was clicked in a session that holds an analyzed document and has
\* seen a typed input or an upload before; the run after the click has cleared
\* the selection.
C12_Witness ==
    /\ \E i \in 1..6 : ClickedOption(i)
    /\ turn.cycles = 2
    /\ ~rerun
    /\ IsNone(last_button_click)
    /\ file_analysis_triggered
    /\ events = MaxEvents

\* The turn began with a typed input that is not the live-agent command.
TypedQuestion ==
    /\ turn.event.type = "chat"
    /\ turn.event.prompt \notin LiveAgentTexts

\* C13: for a typed input other than the live-agent command, from any stage,
\* the log gains the input as one user message (the first message of the turn,
\* and the turn's only user message), and the stage after the turn is
\* file_analysis if it was file_analysis before the input and free_text
\* otherwise.
C13_TypedInput ==
    TypedQuestion
        => /\ IsPrefix(turn.messages, messages)
           /\ Len(NewMessages) >= 1
           /\ NewMessages[1] = Msg("user", turn.event.prompt)
           /\ SelectSeq(NewMessages, LAMBDA m : m.role = "user")
                = << Msg("user", turn.event.prompt) >>
           /\ current_flow = IF turn.flow = FLOW_FILE_ANALYSIS
                             THEN FLOW_FILE_ANALYSIS
                             ELSE FLOW_FREE_TEXT

\* A question typed in the human-support stage has left that stage.
C13_Witness ==
    /\ TypedQuestion
    /\ turn.flow = FLOW_HUMAN_SUPPORT
    /\ current_flow = FLOW_FREE_TEXT
    /\ ~rerun

\* A question typed in the file-analysis stage has stayed in it.
C13_WitnessFileAnalysis ==
    /\ TypedQuestion
    /\ turn.flow = FLOW_FILE_ANALYSIS
    /\ current_flow = FLOW_FILE_ANALYSIS
    /\ ~rerun

\* The current turn has run the automatic document analysis.
AnalysisTurn == \E i \in 1..Len(calls) : calls[i].site = "analysis"

AssistantMessages(log) == SelectSeq(log, LAMBDA m : m.role = "assistant")

\* C14: no retries. A turn never issues more than one request. A typed input
\* that is not the live-agent command issues exactly one, and the turn appends
\* exactly one assistant message, the text that request returned; the turn
\* ends with its run. A turn that runs the automatic analysis issues exactly
\* one request, and after the upload confirmation the turn appends exactly one
\* message, the text that request returned; the run after the analysis ends
\* the turn. No exception leaves the call, whether it succeeded or failed.
C14_NoRetries ==
    /\ Len(calls) <= 1
    /\ \A i \in 1..Len(calls) : IsNone(calls[i].result.escaped)
    /\ TypedQuestion
        => /\ Len(calls) = 1
           /\ calls[1].site = "chat"
           /\ AssistantMessages(NewMessages)
                = << Msg("assistant", calls[1].result.full_response) >>
           /\ ~rerun
    /\ AnalysisTurn
        => /\ calls[1].site = "analysis"
           /\ Len(NewMessages) = 2
           /\ StartsWith(NewMessages[1].content, "File '")
           /\ NewMessages[2] = Msg("assistant", calls[1].result.full_response)
           /\ turn.cycles \in {2, 3}
           /\ rerun <=> turn.cycles = 2

\* A typed question's request was refused by the endpoint (HTTP 500): one
\* request, the API apology as the turn's one assistant message, and the session
\* takes the next event.
C14_Witness ==
    /\ TypedQuestion
    /\ Len(calls) = 1
    /\ calls[1].result.handled = Some("HTTPError")
    /\ AssistantMessages(NewMessages) = << Msg("assistant", ApiApology) >>
    /\ ~rerun
    /\ events < MaxEvents

\* The automatic analysis failed in the middle of the stream and the session
\* has settled.
C14_WitnessAnalysis ==
    /\ AnalysisTurn
    /\ calls[1].result.handled = Some("ChunkedEncodingError")
    /\ LastContent(messages) = GenericApology
    /\ ~rerun

\* The stage table: the targets of the options a stage offers, in order.
TableTargets(flow) ==
    CASE flow = FLOW_WELCOME ->
            << FLOW_NEW_BUSINESS_START, FLOW_EXISTING_BUSINESS_NEEDS, FLOW_FREE_TEXT,
               FLOW_FREE_TEXT, FLOW_LEARN_MORE_TOPICS, FLOW_FREE_TEXT >>
      [] flow = FLOW_NEW_BUSINESS_START ->
            << FLOW_NEW_BUSINESS_IDEA, FLOW_NEW_BUSINESS_NO_IDEA >>
      [] flow \in {FLOW_EXISTING_BUSINESS_NEEDS, FLOW_LEARN_MORE_TOPICS} ->
            << FLOW_FREE_TEXT, FLOW_FREE_TEXT, FLOW_FREE_TEXT, FLOW_FREE_TEXT, FLOW_FREE_TEXT >>
      [] OTHER -> << >>

\* The stage table: the one other button of a stage that offers no options.
TableAction(flow) ==
    CASE flow = FLOW_NEW_BUSINESS_IDEA -> {"back_to_welcome_idea"}
      [] flow = FLOW_NEW_BUSINESS_NO_IDEA -> {"back_to_welcome_no_idea"}
      [] flow \in {FLOW_FREE_TEXT, FLOW_FILE_ANALYSIS} -> {"back_to_welcome_free_text"}
      [] flow = FLOW_HUMAN_SUPPORT -> {"human_expert_button"}
      [] OTHER -> {}

\* The buttons the stage table gives a stage.
TableKeys(flow) ==
    {ButtonKey(TableTargets(flow)[i], flow, i - 1) : i \in 1..Len(TableTargets(flow))}
        \cup TableAction(flow)

\* The turn began with a click on a button of the stage the session was in.
ClickedStageButton == turn.event.type = "click" /\ turn.event.key \in TableKeys(turn.flow)

\* C15: the buttons follow the stage table and nothing else. A finished run has
\* put on the page exactly the table's buttons of the stage it drew (6 for
\* welcome, 2 for new_business_start, 5 each for existing_business_needs and
\* learn_more_topics, the back button alone for new_business_idea,
\* new_business_no_idea, free_text and file_analysis, the one human-support
\* button for human_support; nothing when a typed input has just left
\* human_support). A click on option i of the stage sets the stage to the
\* table's i-th target; a back button sets it to welcome; the human-support
\* button appends one assistant message and sets free_text; a click on any other
\* button changes neither the stage nor the log. No click leaves the session in
\* human_support or file_analysis unless it was there and the click did nothing.
C15_StageTable ==
    /\ ~rerun
        => shown = IF turn.cycles > 1 THEN TableKeys(current_flow)
                   ELSE IF turn.event.type = "chat" /\ turn.flow = FLOW_HUMAN_SUPPORT THEN {}
                   ELSE TableKeys(turn.flow)
    /\ \A i \in 1..6 :
        ClickedOption(i) => i <= Len(TableTargets(turn.flow))
                            /\ current_flow = TableTargets(turn.flow)[i]
    /\ (ClickedStageButton /\ turn.event.key \in
            {"back_to_welcome_idea", "back_to_welcome_no_idea", "back_to_welcome_free_text"})
        => current_flow = FLOW_WELCOME
    /\ (ClickedStageButton /\ turn.event.key = "human_expert_button")
        => /\ messages = Append(turn.messages, Msg("assistant", HumanExpertLine))
           /\ current_flow = FLOW_FREE_TEXT
           /\ ~rerun
    /\ (turn.event.type = "click" /\ ~ClickedStageButton)
        => messages = turn.messages /\ current_flow = turn.flow /\ ~rerun
    /\ (turn.event.type = "click" /\ current_flow \in {FLOW_HUMAN_SUPPORT, FLOW_FILE_ANALYSIS})
        => ~ClickedStageButton /\ current_flow = turn.flow
    /\ Cardinality(TableKeys(FLOW_WELCOME)) = 6
    /\ Cardinality(TableKeys(FLOW_NEW_BUSINESS_START)) = 2
    /\ Cardinality(TableKeys(FLOW_EXISTING_BUSINESS_NEEDS)) = 5
    /\ Cardinality(TableKeys(FLOW_LEARN_MORE_TOPICS)) = 5

\* The human-support button was clicked in the human-support stage.
C15_Witness ==
    /\ ClickedStageButton
    /\ turn.event.key = "human_expert_button"
    /\ current_flow = FLOW_FREE_TEXT
    /\ LastContent(messages) = HumanExpertLine

\* The back button was clicked in the file-analysis stage.
C15_WitnessBack ==
    /\ ClickedStageButton
    /\ turn.flow = FLOW_FILE_ANALYSIS
    /\ current_flow = FLOW_WELCOME
    /\ ~rerun

\* A button left on the page by the stage before was clicked.
C15_WitnessStale ==
    /\ turn.event.type = "click"
    /\ ~ClickedStageButton

\* C16: every run draws the whole message log, in every stage, before the
\* stage's buttons: after each run of the script display_chat_history has been
\* called, with no button of the run above it, on a log that the run only
\* extended afterwards.
C16_LogDisplayed ==
    turn.cycles >= 1
        => /\ ~IsNone(displayed)
           /\ Value(displayed).below = {}
           /\ IsPrefix(Value(displayed).messages, messages)

\* The call read the stream to its end: no except clause ran and no exception
\* left the call.
CompletedWithoutFailure(c) ==
    /\ StreamCompleted(c.outcome)
    /\ IsNone(c.result.handled)
    /\ IsNone(c.result.escaped)

\* C17: for a stream that completes without failure the text returned is the
\* concatenation, in arrival order, of the message.content fragments of the
\* chunks that carry one; the chunks without one contribute nothing, and the
\* cursor shown while streaming is not part of the text.
C17_Concatenation ==
    \A c \in AllCalls :
        CompletedWithoutFailure(c)
            => /\ c.result.full_response = Fragments(c.outcome.lines)
               /\ ~Contains(c.result.full_response, Cursor)

\* Two fragments arrived with a chunk that carries none between them.
C17_Witness ==
    \E c \in AllCalls :
        /\ CompletedWithoutFailure(c)
        /\ c.outcome.lines =
            << Fragment("Hel"),
               JsonLine(JObject([message |-> JObject([role |-> JString("assistant")])])),
               Fragment("lo") >>
        /\ c.result.full_response = "Hello"

\* The run of this step holds in the uploader a file whose name is the stored
\* document's name.
HoldsStoredName ==
    /\ ~IsNone(uploaded_file')
    /\ uploaded_file_name = Some(Value(uploaded_file').name)

\* The calls the run of this step issued.
StepCalls == IF turn'.cycles = 1 THEN calls' ELSE SubSeq(calls', Len(calls) + 1, Len(calls'))

\* What a same-named document must leave alone: the stored document, the
\* analyzed flag, no analysis call; and, in the run the upload itself begins,
\* the log and the stage.
SameNameFrame ==
    /\ uploaded_file_name' = uploaded_file_name
    /\ uploaded_file_content' = uploaded_file_content
    /\ file_analysis_triggered' = file_analysis_triggered
    /\ \A i \in 1..Len(StepCalls) : StepCalls[i].site # "analysis"
    /\ (turn'.event.type = "upload" /\ turn'.cycles = 1)
        => /\ messages' = messages
           /\ current_flow' = current_flow
           /\ ~rerun'

\* C18 (as claimed): a run that is handed a document with the stored name,
\* newly put into the uploader or still held by it, changes nothing of the
\* above, whatever the document's content.
C18_SameNameNoEffect == [][HoldsStoredName => SameNameFrame]_vars

\* C18 (amended): the same once the stored document is analyzed.
C18_SameNameAnalyzed ==
    [][(HoldsStoredName /\ file_analysis_triggered) => SameNameFrame]_vars

\* notes.txt with the content "Q2" was put into the uploader of a session that
\* holds the analyzed notes.txt with another content: nothing has changed.
C18_Witness ==
    /\ turn.event.type = "upload"
    /\ turn.event.file = Some([name |-> "notes.txt", content |-> "Q2"])
    /\ turn.uploaded_file_name = Some("notes.txt")
    /\ turn.file_analysis_triggered
    /\ uploaded_file_content = Some("Q1 revenue $5000")
    /\ file_analysis_triggered
    /\ messages = turn.messages
    /\ current_flow = turn.flow
    /\ calls = << >>
    /\ ~rerun

\* C19: the automatic re-running always settles. A run that is due can always
\* be made; one event never begins more than three runs (the event's run, the
\* run it asks for, and the run the analysis asks for), and the third run of a
\* chain asks for no further run: whenever a run is due, fewer than three runs
\* have been made since the last user event.
C19_RerunsSettle ==
    /\ rerun => ENABLED Rerun
    /\ turn.cycles <= 3
    /\ rerun => turn.cycles < 3

\* The chain a new upload began has ended after the upload's run, the analysis
\* and the run that draws the analysis.
C19_Witness ==
    /\ turn.event.type = "upload"
    /\ turn.cycles = 3
    /\ AnalysisTurn
    /\ ~rerun

\* C20: a model request is issued only for a typed input that is not the
\* live-agent command (its last message is that input) and for the automatic
\* analysis of the document an upload has just stored (its last message is the
\* analysis prompt). A turn begun by a click on any button, by a run without an
\* event, by the live-agent command, or by an upload that stores nothing new
\* issues none; a click on an option that leads to free_text appends the echo of
\* its label and nothing else.
C20_RequestsOnlyWhenNeeded ==
    /\ \A i \in 1..Len(calls) :
        LET posted == calls[i].result.messages IN
        \/ /\ calls[i].site = "chat"
           /\ TypedQuestion
           /\ posted[Len(posted)] = Msg("user", turn.event.prompt)
        \/ /\ calls[i].site = "analysis"
           /\ UploadedNew
           /\ turn.cycles >= 2
           /\ uploaded_file_name = Some(Value(turn.event.file).name)
           /\ uploaded_file_content = Some(Value(turn.event.file).content)
           /\ file_analysis_triggered
           /\ posted[Len(posted)] = Msg("user", FILE_ANALYSIS_TRIGGER_PROMPT)
    /\ turn.event.type \in {"click", "none", "load"} => calls = << >>
    /\ (turn.event.type = "chat" /\ turn.event.prompt \in LiveAgentTexts) => calls = << >>
    /\ (turn.event.type = "upload" /\ ~UploadedNew) => calls = << >>
    /\ \A i \in 1..6 :
        (ClickedOption(i) /\ StageOptions(turn.flow)[i].flow = FLOW_FREE_TEXT /\ ~rerun)
            => NewMessages = << Msg("user", StageOptions(turn.flow)[i].label) >>

\* The welcome option "I want funding help" was clicked in a session that holds
\* an analyzed document: the free-text stage was entered with the echo alone and
\* without a request.
C20_Witness ==
    /\ ClickedOption(3)
    /\ turn.flow = FLOW_WELCOME
    /\ current_flow = FLOW_FREE_TEXT
    /\ file_analysis_triggered
    /\ ~IsNone(uploaded_file)
    /\ NewMessages = << Msg("user", "I want funding help") >>
    /\ calls = << >>
    /\ ~rerun

\* An internal status line by its origin: the confirmation the uploader section
\* appends for a file. (No typed input, option label or model answer of the
\* sessions checked has such a text; the thinking placeholder is never appended
\* to the log.)
InternalStatus(m) ==
    /\ m.role = "assistant"
    /\ \E f \in Files : m.content = UploadConfirmation(f.name)

\* The messages of the log before the turn that are not internal status lines:
\* typed inputs, echoed option labels, model answers and the stages' lines.
Conversation == SelectSeq(turn.messages, LAMBDA m : ~InternalStatus(m))

\* C21 (as claimed): the history filter removes only internal status lines. In
\* the request of a typed turn the history portion is the log before the turn
\* without its upload confirmations, every other message kept in its order
\* whatever its content (followed or not by the turn's own input, which the
\* passed history also holds).
C21_OnlyStatusLinesRemoved ==
    \A c \in AllCalls :
        c.site = "chat"
            => HistoryPortion(c.result)
                \in {Conversation, Append(Conversation, Msg("user", turn.event.prompt))}

====
